---- MODULE Spec2Model ----
(***************************************************************************)
(* Model of src/src/lib.rs: the Roblox web-API client.  Client holds only  *)
(* a reqwest handle; each of its seven async methods formats a URL, issues *)
(* one GET, reads the body (as serde_json::Value, or as text in            *)
(* check_code) and extracts fields.  One call is one action; the transport *)
(* outcome and the body are inputs of the action.                          *)
(***************************************************************************)
EXTENDS Integers, Sequences, FiniteSets, TLC

VARIABLES pc, op, args, log, resp, result

vars == <<pc, op, args, log, resp, result>>

(***************************************************************************)
(* Bounds of the model.                                                    *)
(***************************************************************************)
MaxInt == 2      \* identifiers and ranks range over 0..MaxInt
MaxLen == 2      \* longest `data` / `roles` array
MaxBody == 3     \* longest profile page body, in characters
MaxCode == 2     \* longest verification code, in characters
MaxName == 3     \* longest username, in characters

Ints == 0..MaxInt

SeqsUpTo(S, n) == UNION {[1..k -> S] : k \in 0..n}

(***************************************************************************)
(* serde_json::Value.  A number is one of serde_json's three kinds: "i64"  *)
(* (an integer that fits i64, value v), "u64" (an integer above i64::MAX,  *)
(* v counts from i64::MAX + 1) and "f64" (a float, v + 0.5).               *)
(***************************************************************************)
JNull == [t |-> "null"]
JBool(b) == [t |-> "bool", b |-> b]
JInt(n) == [t |-> "num", k |-> "i64", v |-> n]
JBig(n) == [t |-> "num", k |-> "u64", v |-> n]
JFloat(n) == [t |-> "num", k |-> "f64", v |-> n]
JStr(s) == [t |-> "str", s |-> s]
JArr(a) == [t |-> "arr", a |-> a]
JObj(o) == [t |-> "obj", o |-> o]

\* Option<T>
None == [some |-> FALSE]
Some(x) == [some |-> TRUE, v |-> x]

\* Result<T, RobloxError>, and the unwinding of a failed unwrap()
Ok(x) == [kind |-> "Ok", val |-> x]
MissingField == [kind |-> "Err", err |-> "MissingField"]
Reqwest(cause) == [kind |-> "Err", err |-> "Reqwest", cause |-> cause]
Panic == [kind |-> "Panic"]

\* value[key]: Null unless value is an object that has the key
Index(value, key) ==
    IF value.t = "obj" /\ key \in DOMAIN value.o THEN value.o[key] ELSE JNull

as_array(value) == IF value.t = "arr" THEN Some(value.a) ELSE None

as_i64(value) ==
    IF value.t = "num" /\ value.k = "i64" THEN Some(value.v) ELSE None

as_str(value) == IF value.t = "str" THEN Some(value.s) ELSE None

unwrap_or_default(o) == IF o.some THEN o.v ELSE 0

(***************************************************************************)
(* The transport.  A response is what reqwest delivers for one GET:        *)
(* send() failed, reading the body failed, the body is not JSON, the body  *)
(* decoded to a Value, or (check_code) the body text.                      *)
(***************************************************************************)
SendErr == [st |-> "send_err"]
BodyErr == [st |-> "body_err"]
DecodeErr == [st |-> "decode_err"]
Json(v) == [st |-> "json", v |-> v]
Text(s, j) == [st |-> "text", s |-> s, isJson |-> j]

\* self.client.get(&url).send().await? : the requests one call issues
Requests(url, r) == <<url>>

\* faulty variant: a body that is not JSON is read as Null instead of failing
FetchJsonLenient(r) ==
    CASE r.st = "send_err" -> Reqwest("send")
      [] r.st = "body_err" -> Reqwest("body")
      [] r.st = "decode_err" -> Ok(JNull)
      [] OTHER -> Ok(r.v)

\* .send().await?.json::<Value>().await?
FetchJson(r) ==
    CASE r.st = "send_err" -> Reqwest("send")
      [] r.st = "body_err" -> Reqwest("body")
      [] r.st = "decode_err" -> Reqwest("decode")
      [] OTHER -> Ok(r.v)

\* .send().await?.text().await?
FetchText(r) ==
    CASE r.st = "send_err" -> Reqwest("send")
      [] r.st = "body_err" -> Reqwest("body")
      [] OTHER -> Ok(r.s)

(***************************************************************************)
(* get_user_roles                                                          *)
(***************************************************************************)
\* faulty variant: an id already present keeps its first rank
insertIfAbsent(m, k, v) ==
    [x \in DOMAIN m \cup {k} |-> IF x \in DOMAIN m THEN m[x] ELSE v]

\* HashMap::insert
insert(m, k, v) == [x \in DOMAIN m \cup {k} |-> IF x = k THEN v ELSE m[x]]

\* the for loop over resp.iter(), from element i on
RECURSIVE InsertRanks(_, _, _)
InsertRanks(a, i, ranks) ==
    IF i > Len(a) THEN Ok(ranks)
    ELSE LET id == as_i64(Index(Index(a[i], "group"), "id"))
             rank == as_i64(Index(Index(a[i], "role"), "rank"))
         IN  IF ~id.some \/ ~rank.some THEN Panic
             ELSE InsertRanks(a, i + 1, insert(ranks, id.v, rank.v))

get_user_roles(roblox_id, r) ==
    LET body == FetchJson(r)
    IN  IF body.kind # "Ok" THEN body
        ELSE LET data == as_array(Index(body.val, "data"))
             IN  IF data.some THEN InsertRanks(data.v, 1, <<>>)
                 ELSE MissingField

UserRolesUrl(roblox_id) ==
    <<"https://groups.roblox.com/v2/users/", ToString(roblox_id), "/groups/roles">>

\* entries of a `data` array: well-formed ones, and one of each malformed shape
Entry(g, rk) == JObj([x \in {"group", "role"} |->
                        IF x = "group" THEN JObj([y \in {"id"} |-> g])
                        ELSE JObj([y \in {"rank"} |-> rk])])

GoodEntries == {Entry(JInt(g), JInt(rk)) : g \in Ints, rk \in Ints}

BadEntries ==
    { JNull,
      JObj(<<>>),
      JObj([x \in {"group"} |-> JObj([y \in {"id"} |-> JInt(0)])]),
      JObj([x \in {"group", "role"} |->
              IF x = "group" THEN JObj(<<>>) ELSE JObj([y \in {"rank"} |-> JInt(0)])]),
      Entry(JStr("7"), JInt(1)),
      Entry(JInt(1), JFloat(1)),
      Entry(JInt(0), JBig(0)) }

WithData(d) == JObj([x \in {"data"} |-> d])

UserRolesBodies ==
    {JNull, JArr(<<>>), JObj(<<>>), WithData(JNull), WithData(JObj(<<>>)), WithData(JStr("x"))}
    \cup {WithData(JArr(a)) : a \in SeqsUpTo(GoodEntries \cup BadEntries, MaxLen)}

(***************************************************************************)
(* get_username_from_id                                                    *)
(***************************************************************************)
get_username_from_id(roblox_id, r) ==
    LET body == FetchJson(r)
    IN  IF body.kind # "Ok" THEN body
        ELSE LET name == as_str(Index(body.val, "Username"))
             IN  IF name.some THEN Ok(name.v) ELSE MissingField

UsernameUrl(roblox_id) == <<"https://api.roblox.com/users/", ToString(roblox_id)>>

WithField(f, v) == JObj([x \in {f} |-> v])

UsernameBodies ==
    {JNull, JStr("bob"), JObj(<<>>), WithField("Id", JInt(1))}
    \cup {WithField("Username", v) :
            v \in {JStr("bob"), JStr(""), JNull, JInt(1), JBool(TRUE), JArr(<<JStr("bob")>>)}}

(***************************************************************************)
(* get_id_from_username                                                    *)
(***************************************************************************)
\* faulty variant: a missing Id is an error, as a missing Username is
get_id_from_username_strict(username, r) ==
    LET body == FetchJson(r)
    IN  IF body.kind # "Ok" THEN body
        ELSE LET id == as_i64(Index(body.val, "Id"))
             IN  IF id.some THEN Ok(id) ELSE MissingField

get_id_from_username(username, r) ==
    LET body == FetchJson(r)
    IN  IF body.kind # "Ok" THEN body
        ELSE Ok(as_i64(Index(body.val, "Id")))

\* format!("https://api.roblox.com/users/get-by-username?username={}", username):
\* the literal cut at '?' and '=', then the characters of username as given
IdFromUsernameUrl(username) ==
    <<"https://api.roblox.com/users/get-by-username", "?", "username", "=">> \o username

\* position of the first c in s at or after i, Len(s) + 1 when there is none
RECURSIVE IndexOf(_, _, _)
IndexOf(s, c, i) ==
    IF i > Len(s) THEN Len(s) + 1
    ELSE IF s[i] = c THEN i
    ELSE IndexOf(s, c, i + 1)

\* the query percent-encode set of the URL parser, on the characters of NameChars
RECURSIVE EncodeQuery(_)
EncodeQuery(s) ==
    IF s = <<>> THEN <<>>
    ELSE (IF Head(s) = " " THEN <<"%", "2", "0">> ELSE <<Head(s)>>) \o EncodeQuery(Tail(s))

\* self.client.get(&url): the string is parsed as a URL; the query the request
\* carries runs from after '?' to before the first '#', the rest is the fragment
RequestQuery(url) ==
    LET q == IndexOf(url, "?", 1)
        h == IndexOf(url, "#", q + 1)
    IN  EncodeQuery(SubSeq(url, q + 1, h - 1))

NameChars == {"u", "&", "#", "=", "%", " ", "4"}

Usernames == SeqsUpTo(NameChars, MaxName)

IdBodies ==
    {JNull, JObj(<<>>), WithField("Username", JStr("bob"))}
    \cup {WithField("Id", v) : v \in {JInt(i) : i \in Ints}
                                      \cup {JNull, JStr("1"), JFloat(1), JBig(0)}}

(***************************************************************************)
(* has_asset                                                               *)
(***************************************************************************)
\* faulty variant: any `data` array counts as owning the item
has_asset_any_array(roblox_id, item, asset_type, r) ==
    LET body == FetchJson(r)
    IN  IF body.kind # "Ok" THEN body
        ELSE Ok(as_array(Index(body.val, "data")).some)

has_asset(roblox_id, item, asset_type, r) ==
    LET body == FetchJson(r)
    IN  IF body.kind # "Ok" THEN body
        ELSE LET data == as_array(Index(body.val, "data"))
             IN  IF data.some THEN Ok(~(Len(data.v) = 0)) ELSE Ok(FALSE)

HasAssetUrl(roblox_id, item, asset_type) ==
    <<"https://inventory.roblox.com/v1/users/", ToString(roblox_id), "/items/",
      asset_type, "/", ToString(item)>>

AssetTypes == {"Asset", "GamePass"}

AssetBodies ==
    {JNull, JArr(<<JInt(1)>>), JObj(<<>>), WithField("Data", JArr(<<JInt(1)>>))}
    \cup {WithData(d) : d \in {JNull, JBool(TRUE), JInt(1), JStr("x"), JObj(<<>>),
                               WithField("id", JInt(1))}}
    \cup {WithData(JArr(a)) : a \in SeqsUpTo({JNull, WithField("id", JInt(1))}, MaxLen)}

(***************************************************************************)
(* check_code                                                              *)
(***************************************************************************)
Lower(c) == IF c = "A" THEN "a" ELSE c

\* faulty variant: the comparison ignores case
containsIgnoreCase(body, code) ==
    \E i \in 1..(Len(body) - Len(code) + 1) :
        \A j \in 1..Len(code) : Lower(body[i + j - 1]) = Lower(code[j])

\* str::contains(&str): some window of body equals code
contains(body, code) ==
    \E i \in 1..(Len(body) - Len(code) + 1) :
        \A j \in 1..Len(code) : body[i + j - 1] = code[j]

check_code(roblox_id, code, r) ==
    LET body == FetchText(r)
    IN  IF body.kind # "Ok" THEN body
        ELSE Ok(contains(body.val, code))

ProfileUrl(roblox_id) ==
    <<"https://www.roblox.com/users/", ToString(roblox_id), "/profile">>

TextChars == {"a", "A", "b"}

TextResponses ==
    {SendErr, BodyErr} \cup {Text(s, j) : s \in SeqsUpTo(TextChars, MaxBody), j \in BOOLEAN}

(***************************************************************************)
(* get_group_rank and get_group_ranks                                      *)
(***************************************************************************)
\* faulty variant: an element without an integer rank matches nothing
RankIsNoDefault(r, rank_id) == as_i64(Index(r, "rank")) = Some(rank_id)

\* the closure of find: r["rank"].as_i64().unwrap_or_default() == rank_id
RankIs(r, rank_id) == unwrap_or_default(as_i64(Index(r, "rank"))) = rank_id

\* Iterator::find, from element i on
RECURSIVE find(_, _, _)
find(a, i, rank_id) ==
    IF i > Len(a) THEN None
    ELSE IF RankIs(a[i], rank_id) THEN Some(a[i])
    ELSE find(a, i + 1, rank_id)

get_group_rank(group_id, rank_id, r) ==
    LET body == FetchJson(r)
    IN  IF body.kind # "Ok" THEN body
        ELSE LET ranks_array == as_array(Index(body.val, "roles"))
             IN  IF ~ranks_array.some THEN Ok(None)
                 ELSE Ok(find(ranks_array.v, 1, rank_id))

\* faulty variant: the upper bound is exclusive
InRangeExclusive(rank, min_rank, max_rank) == rank >= min_rank /\ rank < max_rank

\* rank >= min_rank && rank <= max_rank
InRange(rank, min_rank, max_rank) == rank >= min_rank /\ rank <= max_rank

\* filter_map(..).collect(), from element i on, ranks being the elements kept so far
RECURSIVE FilterRanks(_, _, _, _, _)
FilterRanks(a, i, min_rank, max_rank, ranks) ==
    IF i > Len(a) THEN Ok(ranks)
    ELSE LET rank == as_i64(Index(a[i], "rank"))
         IN  IF ~rank.some THEN Panic
             ELSE FilterRanks(a, i + 1, min_rank, max_rank,
                              IF InRange(rank.v, min_rank, max_rank)
                              THEN Append(ranks, a[i]) ELSE ranks)

get_group_ranks(group_id, min_rank, max_rank, r) ==
    LET body == FetchJson(r)
    IN  IF body.kind # "Ok" THEN body
        ELSE LET ranks_array == as_array(Index(body.val, "roles"))
             IN  IF ~ranks_array.some THEN Ok(<<>>)
                 ELSE FilterRanks(ranks_array.v, 1, min_rank, max_rank, <<>>)

GroupRolesUrl(group_id) ==
    <<"https://groups.roblox.com/v1/groups/", ToString(group_id), "/roles">>

\* role records: {rank, name}, and one of each shape without an i64 rank
Role(rank, name) ==
    JObj([x \in {"rank", "name"} |-> IF x = "rank" THEN rank ELSE JStr(name)])

GoodRoles == {Role(JInt(rk), n) : rk \in Ints, n \in {"x", "y"}}

BadRoles ==
    {JNull, WithField("name", JStr("x")), Role(JStr("1"), "x"), Role(JFloat(1), "y"),
     Role(JBig(0), "x")}

RolesBodies ==
    {JNull, JObj(<<>>), WithField("roles", JNull), WithField("roles", Role(JInt(1), "x"))}
    \cup {WithField("roles", JArr(a)) : a \in SeqsUpTo(GoodRoles \cup BadRoles, MaxLen)}

JsonResponses(bodies) == {SendErr, BodyErr, DecodeErr} \cup {Json(b) : b \in bodies}

NoResp == [st |-> "none"]
NoResult == [kind |-> "none"]

Init ==
    /\ pc = "idle"
    /\ op = "none"
    /\ args = <<>>
    /\ log = <<>>
    /\ resp = NoResp
    /\ result = NoResult

GetUserRoles ==
    /\ pc = "idle"
    /\ \E roblox_id \in Ints, r \in JsonResponses(UserRolesBodies) :
          /\ op' = "get_user_roles"
          /\ args' = [roblox_id |-> roblox_id]
          /\ log' = Requests(UserRolesUrl(roblox_id), r)
          /\ resp' = r
          /\ result' = get_user_roles(roblox_id, r)
    /\ pc' = "done"

GetUsernameFromId ==
    /\ pc = "idle"
    /\ \E roblox_id \in Ints, r \in JsonResponses(UsernameBodies) :
          /\ op' = "get_username_from_id"
          /\ args' = [roblox_id |-> roblox_id]
          /\ log' = Requests(UsernameUrl(roblox_id), r)
          /\ resp' = r
          /\ result' = get_username_from_id(roblox_id, r)
    /\ pc' = "done"

GetIdFromUsername ==
    /\ pc = "idle"
    /\ \E username \in Usernames, r \in JsonResponses(IdBodies) :
          /\ op' = "get_id_from_username"
          /\ args' = [username |-> username]
          /\ log' = Requests(IdFromUsernameUrl(username), r)
          /\ resp' = r
          /\ result' = get_id_from_username(username, r)
    /\ pc' = "done"

HasAsset ==
    /\ pc = "idle"
    /\ \E roblox_id \in Ints, item \in Ints, asset_type \in AssetTypes,
          r \in JsonResponses(AssetBodies) :
          /\ op' = "has_asset"
          /\ args' = [roblox_id |-> roblox_id, item |-> item, asset_type |-> asset_type]
          /\ log' = Requests(HasAssetUrl(roblox_id, item, asset_type), r)
          /\ resp' = r
          /\ result' = has_asset(roblox_id, item, asset_type, r)
    /\ pc' = "done"

CheckCode ==
    /\ pc = "idle"
    /\ \E roblox_id \in Ints, code \in SeqsUpTo(TextChars, MaxCode), r \in TextResponses :
          /\ op' = "check_code"
          /\ args' = [roblox_id |-> roblox_id, code |-> code]
          /\ log' = Requests(ProfileUrl(roblox_id), r)
          /\ resp' = r
          /\ result' = check_code(roblox_id, code, r)
    /\ pc' = "done"

GetGroupRank ==
    /\ pc = "idle"
    /\ \E group_id \in Ints, rank_id \in Ints, r \in JsonResponses(RolesBodies) :
          /\ op' = "get_group_rank"
          /\ args' = [group_id |-> group_id, rank_id |-> rank_id]
          /\ log' = Requests(GroupRolesUrl(group_id), r)
          /\ resp' = r
          /\ result' = get_group_rank(group_id, rank_id, r)
    /\ pc' = "done"

GetGroupRanks ==
    /\ pc = "idle"
    /\ \E group_id \in Ints, min_rank \in Ints, max_rank \in Ints,
          r \in JsonResponses(RolesBodies) :
          /\ op' = "get_group_ranks"
          /\ args' = [group_id |-> group_id, min_rank |-> min_rank, max_rank |-> max_rank]
          /\ log' = Requests(GroupRolesUrl(group_id), r)
          /\ resp' = r
          /\ result' = get_group_ranks(group_id, min_rank, max_rank, r)
    /\ pc' = "done"

\* the caller takes the result; the client keeps nothing of the call
Return ==
    /\ pc = "done"
    /\ pc' = "idle"
    /\ op' = "none"
    /\ args' = <<>>
    /\ log' = <<>>
    /\ resp' = NoResp
    /\ result' = NoResult

Next ==
    \/ GetUserRoles
    \/ GetUsernameFromId
    \/ GetIdFromUsername
    \/ HasAsset
    \/ CheckCode
    \/ GetGroupRank
    \/ GetGroupRanks
    \/ Return

Spec == Init /\ [][Next]_vars

(***************************************************************************)
(* Vocabulary of the properties.                                           *)
(***************************************************************************)
Done(o) == pc = "done" /\ op = o

GotJson(o) == Done(o) /\ resp.st = "json"

\* v is an object whose field f is present
HasField(v, f) == v.t = "obj" /\ f \in DOMAIN v.o

\* v is an object whose field f is an integer in the range of i64
HasInteger(v, f) == HasField(v, f) /\ v.o[f].t = "num" /\ v.o[f].k = "i64"

\* v is an object whose field f is an array
HasArray(v, f) == HasField(v, f) /\ v.o[f].t = "arr"

WellFormedEntry(e) ==
    /\ HasField(e, "group") /\ HasInteger(e.o["group"], "id")
    /\ HasField(e, "role") /\ HasInteger(e.o["role"], "rank")

EntryId(e) == e.o["group"].o["id"].v
EntryRank(e) == e.o["role"].o["rank"].v

Typed(res) ==
    \/ res.kind = "Ok"
    \/ res.kind = "Err" /\ res.err \in {"Reqwest", "MissingField"}

(***************************************************************************)
(* C1: no operation is fatal: every call ends with a success value or a    *)
(* typed error (TransportError or MissingField), whatever the response.    *)
(***************************************************************************)
C1_NeverFatal == pc = "done" => Typed(result)

(***************************************************************************)
(* C2: get_user_roles returns MissingField when the response has no        *)
(* `data` key, when `data` is not an array, and when an element of the     *)
(* array lacks an integer group.id or role.rank.                           *)
(***************************************************************************)
C2_UserRolesMissingField ==
    (/\ GotJson("get_user_roles")
     /\ \/ ~HasArray(resp.v, "data")
        \/ /\ HasArray(resp.v, "data")
           /\ \E i \in 1..Len(resp.v.o["data"].a) : ~WellFormedEntry(resp.v.o["data"].a[i]))
    => result = MissingField

(***************************************************************************)
(* C3: for a `data` array of well-formed entries get_user_roles succeeds   *)
(* with a map whose keys are exactly the group ids of the array, each      *)
(* mapped to the rank of the last entry carrying that id.                  *)
(***************************************************************************)
WellFormedData ==
    /\ GotJson("get_user_roles")
    /\ HasArray(resp.v, "data")
    /\ \A i \in 1..Len(resp.v.o["data"].a) : WellFormedEntry(resp.v.o["data"].a[i])

C3_UserRolesLastWins ==
    WellFormedData =>
        LET a == resp.v.o["data"].a
        IN  /\ result.kind = "Ok"
            /\ DOMAIN result.val = {EntryId(a[i]) : i \in 1..Len(a)}
            /\ \A i \in 1..Len(a) :
                  (\A j \in (i + 1)..Len(a) : EntryId(a[j]) # EntryId(a[i]))
                  => result.val[EntryId(a[i])] = EntryRank(a[i])

C3_Witness ==
    /\ WellFormedData
    /\ \E i, j \in 1..Len(resp.v.o["data"].a) :
          LET a == resp.v.o["data"].a
          IN  /\ i < j
              /\ EntryId(a[i]) = EntryId(a[j])
              /\ EntryRank(a[i]) # EntryRank(a[j])
              /\ result = Ok([g \in {EntryId(a[j])} |-> EntryRank(a[j])])

(***************************************************************************)
(* C4: when every element of `roles` has an integer rank, get_group_ranks  *)
(* succeeds with exactly the elements whose rank lies in                   *)
(* [min_rank, max_rank], in array order and unchanged; an empty selection  *)
(* (also when min_rank > max_rank) is a success.                           *)
(***************************************************************************)
WellFormedRoles ==
    /\ GotJson("get_group_ranks")
    /\ HasArray(resp.v, "roles")
    /\ \A i \in 1..Len(resp.v.o["roles"].a) : HasInteger(resp.v.o["roles"].a[i], "rank")

Within(e) == args.min_rank <= e.o["rank"].v /\ e.o["rank"].v <= args.max_rank

C4_GroupRanksFilter ==
    WellFormedRoles => result = Ok(SelectSeq(resp.v.o["roles"].a, Within))

C4_Witness ==
    /\ WellFormedRoles
    /\ result.kind = "Ok"
    /\ Len(result.val) = 1
    /\ Len(resp.v.o["roles"].a) = 2
    /\ result.val[1].o["rank"].v = args.max_rank
    /\ args.min_rank < args.max_rank

(***************************************************************************)
(* C5: get_group_rank succeeds with the first element of `roles` whose     *)
(* rank equals rank_id, a missing or non-integer rank counting as 0, and   *)
(* with None when `roles` is no array or nothing matches; the element is   *)
(* returned unchanged and MissingField is never returned.                  *)
(***************************************************************************)
EffectiveRank(e) == IF HasInteger(e, "rank") THEN e.o["rank"].v ELSE 0

C5_GroupRankFirstMatch ==
    /\ Done("get_group_rank") => Typed(result) /\ result # MissingField
    /\ GotJson("get_group_rank") =>
        /\ result.kind = "Ok"
        /\ IF HasArray(resp.v, "roles")
           THEN LET a == resp.v.o["roles"].a
                    hits == {i \in 1..Len(a) : EffectiveRank(a[i]) = args.rank_id}
                IN  IF hits = {} THEN result.val = None
                    ELSE \E i \in hits : /\ \A j \in hits : i <= j
                                         /\ result.val = Some(a[i])
           ELSE result.val = None

C5_Witness ==
    /\ GotJson("get_group_rank")
    /\ HasArray(resp.v, "roles")
    /\ LET a == resp.v.o["roles"].a
       IN  /\ Len(a) = 2
           /\ a[1] # a[2]
           /\ ~HasInteger(a[1], "rank")
           /\ EffectiveRank(a[2]) = args.rank_id
           /\ result = Ok(Some(a[1]))

(***************************************************************************)
(* C6: for a JSON response get_id_from_username always succeeds: Some(n)   *)
(* when `Id` is the integer n, None when `Id` is absent or no integer;     *)
(* get_username_from_id returns MissingField when `Username` is absent or  *)
(* no string.                                                              *)
(***************************************************************************)
C6_IdIsOptional ==
    /\ GotJson("get_id_from_username") =>
          result = Ok(IF HasInteger(resp.v, "Id") THEN Some(resp.v.o["Id"].v) ELSE None)
    /\ (GotJson("get_username_from_id")
        /\ ~(HasField(resp.v, "Username") /\ resp.v.o["Username"].t = "str"))
       => result = MissingField

C6_Witness ==
    /\ GotJson("get_id_from_username")
    /\ HasField(resp.v, "Id")
    /\ ~HasInteger(resp.v, "Id")
    /\ result = Ok(None)

(***************************************************************************)
(* C7: for a JSON response has_asset succeeds, with true exactly when      *)
(* `data` is an array with at least one element.                           *)
(***************************************************************************)
C7_HasAssetIff ==
    GotJson("has_asset") =>
        result = Ok(HasArray(resp.v, "data") /\ Len(resp.v.o["data"].a) >= 1)

C7_Witness ==
    /\ GotJson("has_asset")
    /\ HasArray(resp.v, "data")
    /\ resp.v.o["data"].a = <<>>
    /\ result = Ok(FALSE)

(***************************************************************************)
(* C8: the request of get_id_from_username carries exactly one query       *)
(* parameter, `username`, whose decoded value is the username given.       *)
(***************************************************************************)
\* the pieces of s between occurrences of c
RECURSIVE Split(_, _)
Split(s, c) ==
    LET i == IndexOf(s, c, 1)
    IN  IF i > Len(s) THEN <<s>>
        ELSE <<SubSeq(s, 1, i - 1)>> \o Split(SubSeq(s, i + 1, Len(s)), c)

HexDigits == {"0", "2", "4"}

\* the character a %XY escape stands for
HexChar(x, y) ==
    CASE x = "2" /\ y = "0" -> " "
      [] x = "2" /\ y = "2" -> "\""
      [] x = "2" /\ y = "4" -> "$"
      [] x = "4" /\ y = "0" -> "@"
      [] x = "4" /\ y = "2" -> "B"
      [] x = "4" /\ y = "4" -> "D"
      [] OTHER -> "ctl"

RECURSIVE PercentDecode(_)
PercentDecode(s) ==
    IF s = <<>> THEN <<>>
    ELSE IF Head(s) = "%" /\ Len(s) >= 3 /\ s[2] \in HexDigits /\ s[3] \in HexDigits
         THEN <<HexChar(s[2], s[3])>> \o PercentDecode(SubSeq(s, 4, Len(s)))
         ELSE <<Head(s)>> \o PercentDecode(Tail(s))

\* name and decoded value of one name=value piece
Pair(piece) ==
    LET e == IndexOf(piece, "=", 1)
    IN  <<PercentDecode(SubSeq(piece, 1, e - 1)),
          PercentDecode(SubSeq(piece, e + 1, Len(piece)))>>

\* the parameters a query string carries: its non-empty pieces between '&'
QueryPairs(q) == LET pieces == SelectSeq(Split(q, "&"), LAMBDA x : x # <<>>)
                 IN  [i \in 1..Len(pieces) |-> Pair(pieces[i])]

C8_UsernameEscaped ==
    Done("get_id_from_username") =>
        QueryPairs(RequestQuery(log[1])) = << <<(<<"username">>), args.username>> >>

(***************************************************************************)
(* C9: every call issues exactly one GET and never retries; a failure to   *)
(* send, to read the body or (in the six JSON operations) to decode it is  *)
(* returned as the transport error wrapping that cause.                    *)
(***************************************************************************)
TransportFailed == resp.st \in {"send_err", "body_err", "decode_err"}

Cause == CASE resp.st = "send_err" -> "send"
           [] resp.st = "body_err" -> "body"
           [] OTHER -> "decode"

C9_OneGetTransportError ==
    pc = "done" =>
        /\ Len(log) = 1
        /\ TransportFailed => result = Reqwest(Cause)

C9_Witness ==
    /\ Done("has_asset")
    /\ resp = DecodeErr
    /\ Len(log) = 1
    /\ result = Reqwest("decode")

(***************************************************************************)
(* C10: check_code never parses JSON; when the transport succeeds it       *)
(* returns true exactly when code occurs in the body as a contiguous,      *)
(* case-sensitive substring, and it never returns MissingField.            *)
(***************************************************************************)
Occurs(code, body) ==
    \E i \in 0..Len(body) : \E j \in i..Len(body) : SubSeq(body, i + 1, j) = code

C10_CheckCodeSubstring ==
    Done("check_code") =>
        /\ Typed(result) /\ result # MissingField
        /\ resp.st = "text" => result = Ok(Occurs(args.code, resp.s))

C10_Witness ==
    /\ Done("check_code")
    /\ resp.st = "text"
    /\ ~resp.isJson
    /\ args.code = <<"a", "b">>
    /\ resp.s = <<"A", "a", "b">>
    /\ result = Ok(TRUE)

====
